---- MODULE Spec2Model ----
(***************************************************************************)
(* Model of src/rust/src/main.rs: zaremba_tau (divisor enumeration with    *)
(* the log-weighted sum z(n) and the divisor count tau(n)) and do_records  *)
(* (the scan that reports record values of z and of z / ln(tau)).          *)
(*                                                                         *)
(* f64 values are modelled as tagged fixed-point numbers: a record         *)
(* [k |-> "num", v |-> round(x * Scale)], or k = "nan" / "inf" for the     *)
(* non-finite results of a division by zero.  Only non-negative values     *)
(* occur (ln(d) >= 0 for d >= 1).                                          *)
(***************************************************************************)
EXTENDS Integers, Sequences, FiniteSets, TLC

VARIABLES
  \* zaremba_tau run on its own
  tpc,            \* "idle", "loop" or "returned"
  tst,            \* locals of zaremba_tau (see TauInit)
  result,         \* the returned (sum, divisor_count)
  \* do_records
  pc,             \* "idle", "loop" or "done"
  max_n,          \* the argument
  n,              \* next element of the range 1..max_n
  record_z,
  record_ratio,
  z, tau, ratio,  \* locals of the last iteration
  is_record_z, is_record_ratio,
  events,         \* the lines printed, in order
  evaluated       \* history: the n passed to zaremba_tau, in order

tauVars == <<tpc, tst, result>>
scanVars == <<pc, max_n, n, record_z, record_ratio, z, tau, ratio,
              is_record_z, is_record_ratio, events, evaluated>>
vars == <<tpc, tst, result, pc, max_n, n, record_z, record_ratio, z, tau,
          ratio, is_record_z, is_record_ratio, events, evaluated>>

\* ------------------------------------------------------------------ bounds
\* largest n given to zaremba_tau in SpecTau
MaxTauN == 40
\* largest max_n given to do_records in Spec
MaxN == 40

\* ------------------------------------------------------------- f64 model
\* fixed-point denominator of the f64 model
Scale == 1000000

F(v) == [k |-> "num", v |-> v]
NaN == [k |-> "nan", v |-> 0]
Inf == [k |-> "inf", v |-> 0]

\* `d as f64` for an integer d >= 0
IntToF(d) == F(d * Scale)

\* f64::ln on the integer-valued arguments 1..64 the program passes,
\* LnTable[i] = round(ln(i) * Scale)
LnTable ==
  << 0, 693147, 1098612, 1386294, 1609438, 1791759, 1945910, 2079442,
     2197225, 2302585, 2397895, 2484907, 2564949, 2639057, 2708050, 2772589,
     2833213, 2890372, 2944439, 2995732, 3044522, 3091042, 3135494, 3178054,
     3218876, 3258097, 3295837, 3332205, 3367296, 3401197, 3433987, 3465736,
     3496508, 3526361, 3555348, 3583519, 3610918, 3637586, 3663562, 3688879,
     3713572, 3737670, 3761200, 3784190, 3806662, 3828641, 3850148, 3871201,
     3891820, 3912023, 3931826, 3951244, 3970292, 3988984, 4007333, 4025352,
     4043051, 4060443, 4077537, 4094345, 4110874, 4127134, 4143135, 4158883 >>

\* (i as f64).ln() for an integer i >= 1
Ln(i) == F(LnTable[i])

\* digits of the fraction r / b, one decimal digit per step (long division),
\* so that no intermediate exceeds b * 10
RECURSIVE FracDigits(_, _, _)
FracDigits(r, b, unit) ==
  IF unit = 1 THEN 0
  ELSE LET u == unit \div 10
           q == (r * 10) \div b
       IN q * u + FracDigits((r * 10) % b, b, u)

\* f64 `/` on non-negative operands: x/0 is NaN for x = 0 and +inf otherwise
FDiv(a, b) ==
  IF a.k = "nan" \/ b.k = "nan" THEN NaN
  ELSE IF a.k = "inf" THEN (IF b.k = "inf" THEN NaN ELSE Inf)
  ELSE IF b.k = "inf" THEN F(0)
  ELSE IF b.v = 0 THEN (IF a.v = 0 THEN NaN ELSE Inf)
  ELSE F((a.v \div b.v) * Scale + FracDigits(a.v % b.v, b.v, Scale))

\* f64 `+` on non-negative operands
FAdd(a, b) ==
  IF a.k = "nan" \/ b.k = "nan" THEN NaN
  ELSE IF a.k = "inf" \/ b.k = "inf" THEN Inf
  ELSE F(a.v + b.v)

\* f64 `>`: every comparison with NaN is false
FGt(a, b) ==
  IF a.k = "nan" \/ b.k = "nan" THEN FALSE
  ELSE IF a.k = "inf" THEN b.k # "inf"
  ELSE IF b.k = "inf" THEN FALSE
  ELSE a.v > b.v

\* f64::max written as a comparison: a NaN argument is returned
FMaxNaive(a, b) == IF FGt(a, b) THEN a ELSE b
\* f64::max that keeps the receiver
FMaxKeep(a, b) == a
\* f64::max that takes the argument
FMaxLast(a, b) == b

\* f64::max: if one argument is NaN the other is returned
FMax(a, b) ==
  IF a.k = "nan" THEN b
  ELSE IF b.k = "nan" THEN a
  ELSE IF FGt(b, a) THEN b ELSE a

\* -------------------------------------------------------------- zaremba_tau
\* (n as f64).sqrt() as i64, exact for the small n of the model
ISqrt(m) == CHOOSE k \in 0..m : k * k <= m /\ (k + 1) * (k + 1) > m

\* divisor_limit without the safety margin
DivisorLimitNoMargin(m) == ISqrt(m)

\* let divisor_limit = (n as f64).sqrt() as i64 + 1
DivisorLimit(m) == ISqrt(m) + 1

\* (v as f64).ln() / (v as f64)
Term(v) == FDiv(Ln(v), IntToF(v))

\* state of the function before the loop; terms and iters are history:
\* the values v whose term was added to sum, and the iterations entered
TauInit(m) ==
  [n |-> m, smaller_divisor |-> 1, sum |-> F(0), divisor_count |-> 0,
   terms |-> <<>>, iters |-> 0, brk |-> FALSE]

\* the for loop is over: a break was taken or the range 1..divisor_limit+1
\* is exhausted
TauLoopDone(st) == st.brk \/ st.smaller_divisor > DivisorLimit(st.n)

\* loop body that also adds the larger divisor when it equals the smaller
TauStepDouble(st) ==
  LET d == st.smaller_divisor
      e == st.n \div d
      st1 == [st EXCEPT !.iters = @ + 1]
  IN IF st.n % d # 0 THEN [st1 EXCEPT !.smaller_divisor = d + 1]
     ELSE IF e < d THEN [st1 EXCEPT !.brk = TRUE]
     ELSE LET st2 == [st1 EXCEPT !.sum = FAdd(@, Term(d)),
                                 !.divisor_count = @ + 1,
                                 !.terms = Append(@, d)]
              st3 == [st2 EXCEPT !.sum = FAdd(@, Term(e)),
                                 !.divisor_count = @ + 1,
                                 !.terms = Append(@, e)]
          IN IF e > d THEN [st3 EXCEPT !.smaller_divisor = d + 1]
             ELSE [st3 EXCEPT !.brk = TRUE]

\* loop body without the "passed the geometric midpoint" break
TauStepNoMidpoint(st) ==
  LET d == st.smaller_divisor
      e == st.n \div d
      st1 == [st EXCEPT !.iters = @ + 1]
  IN IF st.n % d # 0 THEN [st1 EXCEPT !.smaller_divisor = d + 1]
     ELSE LET st2 == [st1 EXCEPT !.sum = FAdd(@, Term(d)),
                                 !.divisor_count = @ + 1,
                                 !.terms = Append(@, d)]
          IN IF e > d
             THEN [st2 EXCEPT !.sum = FAdd(@, Term(e)),
                              !.divisor_count = @ + 1,
                              !.terms = Append(@, e),
                              !.smaller_divisor = d + 1]
             ELSE [st2 EXCEPT !.brk = TRUE]

\* one entered iteration of `for smaller_divisor in 1..(divisor_limit+1)`
TauStep(st) ==
  LET d == st.smaller_divisor
      larger_divisor == st.n \div d
      st1 == [st EXCEPT !.iters = @ + 1]
  IN IF st.n % d # 0
     THEN \* continue: not actually a divisor
          [st1 EXCEPT !.smaller_divisor = d + 1]
     ELSE IF larger_divisor < d
     THEN \* break: passed the geometric midpoint
          [st1 EXCEPT !.brk = TRUE]
     ELSE LET st2 == [st1 EXCEPT !.sum = FAdd(@, Term(d)),
                                 !.divisor_count = @ + 1,
                                 !.terms = Append(@, d)]
          IN IF larger_divisor > d
             THEN [st2 EXCEPT !.sum = FAdd(@, Term(larger_divisor)),
                              !.divisor_count = @ + 1,
                              !.terms = Append(@, larger_divisor),
                              !.smaller_divisor = d + 1]
             ELSE \* break: reached the sqrt mark exactly
                  [st2 EXCEPT !.brk = TRUE]

\* the loop run to its end; each iteration's state is bound to a value
\* before the next one starts
RECURSIVE TauRun(_)
TauRun(st) ==
  IF TauLoopDone(st) THEN st
  ELSE CHOOSE r \in {TauRun(s) : s \in {TauStep(st)}} : TRUE

\* zaremba_tau(n) = (sum, divisor_count)
ZarembaTau(m) ==
  LET st == TauRun(TauInit(m)) IN <<st.sum, st.divisor_count>>

\* --------------------------------------------------------------- do_records
\* record > 0.0 alone, without the comparison against the record
IsRecordNoStrict(record, v) == FGt(record, F(0))
\* v > record without the > 0.0 guard
IsRecordNoGuard(record, v) == FGt(v, record)

\* record > 0.0 && v > record
IsRecord(record, v) == FGt(record, F(0)) /\ FGt(v, record)

\* classification that tests is_record_z first
RecordTypeZFirst(irz, irr) ==
  IF irz THEN "z"
  ELSE IF irr THEN "ratio"
  ELSE "none"

\* record_type; "none" stands for None
RecordType(irz, irr) ==
  IF irz /\ irr THEN "both"
  ELSE IF irz /\ ~irr THEN "z"
  ELSE IF ~irz /\ irr THEN "ratio"
  ELSE "none"

\* if let Some(set_records) = record_type { println!(...) }
Emit(out, record_type, n_, z_, tau_, ratio_) ==
  IF record_type # "none"
  THEN Append(out, [n |-> n_, kind |-> record_type, z |-> z_, tau |-> tau_,
                    ratio |-> ratio_])
  ELSE out

\* inclusive range 1..=max_n
LoopContinuesInclusive(n_, max_n_) == n_ <= max_n_

\* `for n in 1..max_n` has a next element
LoopContinues(n_, max_n_) == n_ < max_n_

\* ----------------------------------------------------------- specifications
TauIdle ==
  /\ tpc = "idle"
  /\ tst = TauInit(0)
  /\ result = <<F(0), 0>>

ScanIdle ==
  /\ pc = "idle"
  /\ max_n = 1
  /\ n = 1
  /\ record_z = F(0)
  /\ record_ratio = F(0)
  /\ z = F(0)
  /\ tau = 0
  /\ ratio = F(0)
  /\ is_record_z = FALSE
  /\ is_record_ratio = FALSE
  /\ events = <<>>
  /\ evaluated = <<>>

\* zaremba_tau(k) called with some k in 0..MaxTauN
InitTau ==
  /\ tpc = "loop"
  /\ tst \in {TauInit(k) : k \in 0..MaxTauN}
  /\ result = <<F(0), 0>>
  /\ ScanIdle

\* one iteration of the for loop is entered and run
TauIterate ==
  /\ tpc = "loop"
  /\ ~TauLoopDone(tst)
  /\ tst' = TauStep(tst)
  /\ UNCHANGED <<tpc, result>>
  /\ UNCHANGED scanVars

\* the loop is left and (sum, divisor_count) is returned
TauReturn ==
  /\ tpc = "loop"
  /\ TauLoopDone(tst)
  /\ tpc' = "returned"
  /\ result' = <<tst.sum, tst.divisor_count>>
  /\ UNCHANGED tst
  /\ UNCHANGED scanVars

NextTau == TauIterate \/ TauReturn

SpecTau == InitTau /\ [][NextTau]_vars

\* do_records(max_n) called with some max_n in 1..MaxN
Init ==
  /\ pc = "loop"
  /\ max_n \in 1..MaxN
  /\ n = 1
  /\ record_z = F(0)
  /\ record_ratio = F(0)
  /\ z = F(0)
  /\ tau = 0
  /\ ratio = F(0)
  /\ is_record_z = FALSE
  /\ is_record_ratio = FALSE
  /\ events = <<>>
  /\ evaluated = <<>>
  /\ TauIdle

\* one iteration of `for n in 1..max_n`
Iterate ==
  /\ pc = "loop"
  /\ LoopContinues(n, max_n)
  /\ \E r \in {ZarembaTau(n)} :
     \E ratio_ \in {FDiv(r[1], Ln(r[2]))} :
       LET z_ == r[1]
           tau_ == r[2]
           rz == IsRecord(record_z, z_)
           rr == IsRecord(record_ratio, ratio_)
           record_type == RecordType(rz, rr)
       IN /\ z' = z_
          /\ tau' = tau_
          /\ ratio' = ratio_
          /\ is_record_z' = rz
          /\ is_record_ratio' = rr
          /\ events' = Emit(events, record_type, n, z_, tau_, ratio_)
          /\ record_z' = FMax(record_z, z_)
          /\ record_ratio' = FMax(record_ratio, ratio_)
  /\ evaluated' = Append(evaluated, n)
  /\ n' = n + 1
  /\ UNCHANGED <<pc, max_n>>
  /\ UNCHANGED tauVars

\* the range is exhausted and do_records returns
Finish ==
  /\ pc = "loop"
  /\ ~LoopContinues(n, max_n)
  /\ pc' = "done"
  /\ UNCHANGED <<max_n, n, record_z, record_ratio, z, tau, ratio,
                 is_record_z, is_record_ratio, events, evaluated>>
  /\ UNCHANGED tauVars

Next == Iterate \/ Finish

Spec == Init /\ [][Next]_vars

\* the loop is straight-line code: a call that has started keeps running
FairSpec == Spec /\ WF_vars(Next)

\* ------------------------------------------------------ reference notions
\* the positive integers that evenly divide m (trial division up to m)
Divisors(m) == {d \in 1..m : m % d = 0}

Range(seq) == {seq[i] : i \in DOMAIN seq}

\* how often v occurs in seq
Occurrences(seq, v) == Cardinality({i \in DOMAIN seq : seq[i] = v})

\* sum of ln(v)/v over the entries of seq, in order
RECURSIVE SumTerms(_)
SumTerms(seq) ==
  IF seq = <<>> THEN F(0)
  ELSE FAdd(SumTerms(SubSeq(seq, 1, Len(seq) - 1)), Term(seq[Len(seq)]))

\* x is the maximum of the set S of f64 values
IsMaxOf(x, S) == x \in S /\ \A y \in S : ~FGt(y, x)

\* z(m), tau(m) and ratio(m) as the program computes them
ScanZ == [m \in 1..MaxN |-> ZarembaTau(m)[1]]
ScanTau == [m \in 1..MaxN |-> ZarembaTau(m)[2]]
ScanRatio == [m \in 1..MaxN |-> FDiv(ScanZ[m], Ln(ScanTau[m]))]

\* the running maximum before m is scanned: the initial 0.0 and the
\* values of the earlier n (for the ratio, those that are finite)
PrevMaxZ(m) ==
  CHOOSE x \in {F(0)} \cup {ScanZ[j] : j \in 1..(m - 1)} :
    IsMaxOf(x, {F(0)} \cup {ScanZ[j] : j \in 1..(m - 1)})
FiniteRatios(m) ==
  {ScanRatio[j] : j \in {i \in 1..(m - 1) : ScanRatio[i].k = "num"}}
PrevMaxRatio(m) ==
  CHOOSE x \in {F(0)} \cup FiniteRatios(m) :
    IsMaxOf(x, {F(0)} \cup FiniteRatios(m))

\* an event was emitted for m
HasEvent(m) == \E i \in DOMAIN events : events[i].n = m

\* the kinds of the events emitted for m
KindsAt(m) == {events[i].kind : i \in {j \in DOMAIN events : events[j].n = m}}

\* ------------------------------------------------------------------ claims

\* C1: for every n >= 1 the tau returned by zaremba_tau(n) is the number of
\* d in 1..n with n mod d = 0 (trial division), and so is at least 1.
C1_TauIsDivisorCount ==
  (tpc = "returned" /\ tst.n >= 1) =>
    /\ result[2] = Cardinality(Divisors(tst.n))
    /\ result[2] >= 1

\* zaremba_tau(36) has returned 9
C1_Witness == tpc = "returned" /\ tst.n = 36 /\ result[2] = 9

\* C2: for every n >= 1 the values whose term ln(v)/v is added to the sum
\* are exactly the divisors of n, each once; tau counts them and the sum is
\* the sum of their terms.  For n = k*k the divisor k is added once.
C2_TermsAreDivisorsOnce ==
  /\ tst.n >= 1 =>
       /\ \A v \in Range(tst.terms) :
            v \in Divisors(tst.n) /\ Occurrences(tst.terms, v) = 1
       /\ tst.divisor_count = Len(tst.terms)
       /\ tst.sum = SumTerms(tst.terms)
  /\ (tpc = "returned" /\ tst.n >= 1) =>
       /\ Range(tst.terms) = Divisors(tst.n)
       /\ Len(tst.terms) = Cardinality(Divisors(tst.n))
       /\ result = <<SumTerms(tst.terms), Len(tst.terms)>>
       /\ \A k \in 1..tst.n :
            k * k = tst.n => Occurrences(tst.terms, k) = 1

\* zaremba_tau has returned for a perfect square n = k*k, k >= 2, with k
\* among the added values
C2_Witness ==
  /\ tpc = "returned"
  /\ \E k \in 2..MaxTauN : k * k = tst.n /\ Occurrences(tst.terms, k) = 1

\* C6 as stated: zaremba_tau(0) returns (0.0, 0) and no loop iteration is
\* entered.
C6_Original ==
  (tpc = "returned" /\ tst.n = 0) =>
    /\ result = <<F(0), 0>>
    /\ tst.iters = 0

\* C6 amended: zaremba_tau(0) returns (0.0, 0); the loop is entered exactly
\* once (smaller_divisor = 1) and is left by the break for
\* larger_divisor < smaller_divisor before anything is added.
C6_ZeroBreaksInFirstIteration ==
  (tpc = "returned" /\ tst.n = 0) =>
    /\ result = <<F(0), 0>>
    /\ tst.iters = 1
    /\ tst.brk
    /\ tst.smaller_divisor = 1
    /\ tst.terms = <<>>

\* zaremba_tau(0) has returned
C6_Witness == tpc = "returned" /\ tst.n = 0 /\ result[2] = 0

\* C3 as stated: an event is emitted for n exactly when z(n) exceeds the
\* running maximum of z over the values scanned before, or ratio(n) exceeds
\* the running maximum of the ratio.
C3_Original ==
  \A i \in DOMAIN evaluated :
    LET m == evaluated[i]
    IN HasEvent(m) <=> \/ FGt(ScanZ[m], PrevMaxZ(m))
                       \/ FGt(ScanRatio[m], PrevMaxRatio(m))

\* C3 amended: an event is emitted for n exactly when z(n) exceeds a running
\* maximum of z that is already above the initial 0.0, or ratio(n) exceeds a
\* running maximum of the finite ratios that is already above 0.0; the n that
\* first lifts a maximum above 0.0 emits nothing.
C3_EventIffPositiveMaxExceeded ==
  \A i \in DOMAIN evaluated :
    LET m == evaluated[i]
    IN HasEvent(m) <=>
         \/ FGt(PrevMaxZ(m), F(0)) /\ FGt(ScanZ[m], PrevMaxZ(m))
         \/ FGt(PrevMaxRatio(m), F(0)) /\ FGt(ScanRatio[m], PrevMaxRatio(m))

\* n = 1..5 are scanned: 2 lifted the maxima silently, 3 is a record, 5 not
C3_Witness ==
  Len(evaluated) >= 5 /\ ~HasEvent(2) /\ HasEvent(3) /\ ~HasEvent(5)

\* C4: at most one event per n; its kind is "both" exactly when both flags
\* are true, "z" when only is_record_z, "ratio" when only is_record_ratio,
\* and there is no event exactly when neither is true.
C4_OneEventByFlags ==
  /\ \A i, j \in DOMAIN events : events[i].n = events[j].n => i = j
  /\ \A i \in DOMAIN events : events[i].kind \in {"both", "z", "ratio"}
  /\ evaluated # <<>> =>
       LET m == evaluated[Len(evaluated)]
       IN /\ (is_record_z /\ is_record_ratio) <=> KindsAt(m) = {"both"}
          /\ (is_record_z /\ ~is_record_ratio) <=> KindsAt(m) = {"z"}
          /\ (~is_record_z /\ is_record_ratio) <=> KindsAt(m) = {"ratio"}
          /\ (~is_record_z /\ ~is_record_ratio) <=> KindsAt(m) = {}
  /\ RecordType(TRUE, TRUE) = "both"
  /\ RecordType(TRUE, FALSE) = "z"
  /\ RecordType(FALSE, TRUE) = "ratio"
  /\ RecordType(FALSE, FALSE) = "none"

\* the iteration just run set both flags and printed one line
C4_Witness ==
  /\ evaluated # <<>>
  /\ is_record_z /\ is_record_ratio
  /\ events # <<>>
  /\ events[Len(events)].n = evaluated[Len(evaluated)]
  /\ events[Len(events)].kind = "both"

\* C5 as stated: when do_records(max_n) finishes, record_z is the maximum of
\* z over [1, max_n) and record_ratio the maximum of the finite ratios over
\* [1, max_n), for every max_n >= 1.
C5_Original ==
  pc = "done" =>
    /\ IsMaxOf(record_z, {ScanZ[j] : j \in 1..(max_n - 1)})
    /\ IsMaxOf(record_ratio, FiniteRatios(max_n))

\* C5 amended: when do_records(max_n) finishes, record_z is the maximum of z
\* over [1, max_n) if max_n >= 2 and record_ratio the maximum of the finite
\* ratios over [1, max_n) if max_n >= 3; where there is no such value
\* (max_n = 1, and max_n <= 2 for the ratio) the field is still 0.0.
C5_FinalRecordsAreMaxima ==
  pc = "done" =>
    /\ max_n >= 2 => IsMaxOf(record_z, {ScanZ[j] : j \in 1..(max_n - 1)})
    /\ max_n >= 3 => IsMaxOf(record_ratio, FiniteRatios(max_n))
    /\ max_n = 1 => record_z = F(0)
    /\ max_n <= 2 => record_ratio = F(0)

\* a scan of 1..11 has finished, after maxima were passed and not beaten
C5_Witness == pc = "done" /\ max_n = 12 /\ record_z = ScanZ[6]

\* C7: n = 1 (tau 1, ratio 0/0) emits no event and its non-finite ratio never
\* enters the state: record_ratio is finite in every state, still 0.0 after
\* n = 1, and the first finite ratio (n = 2) becomes record_ratio silently.
C7_DegenerateRatioKeptOut ==
  /\ record_ratio.k = "num"
  /\ evaluated # <<>> => ~HasEvent(1)
  /\ Len(evaluated) = 1 =>
       /\ tau = 1
       /\ ratio = NaN
       /\ record_ratio = F(0)
       /\ events = <<>>
  /\ Len(evaluated) = 2 =>
       /\ ratio.k = "num"
       /\ FGt(ratio, F(0))
       /\ record_ratio = ratio
       /\ events = <<>>

\* n = 1 has just been scanned and produced the NaN ratio
C7_Witness == Len(evaluated) = 1 /\ ratio.k = "nan" /\ record_ratio = F(0)

\* the maximum of a finite old value and v, where a NaN v counts for nothing
MaxRef(old, v) == IF v.k # "nan" /\ FGt(v, old) THEN v ELSE old

\* C8: in every step record_z and record_ratio do not decrease, and every
\* iteration, with or without an event, sets them to the maximum of the old
\* value and the current z, respectively ratio.
C8_RecordsMonotoneUpdated ==
  [][ /\ ~FGt(record_z, record_z')
      /\ ~FGt(record_ratio, record_ratio')
      /\ record_z'.k = "num" /\ record_ratio'.k = "num"
      /\ evaluated' # evaluated =>
           /\ record_z' = MaxRef(record_z, z')
           /\ record_ratio' = MaxRef(record_ratio, ratio')
    ]_vars

\* an iteration raised both records without emitting an event
C8_Witness ==
  /\ evaluated # <<>>
  /\ ~is_record_z /\ ~is_record_ratio
  /\ FGt(z, F(0)) /\ record_z = z
  /\ record_ratio = ratio

\* the scan so far: 1, 2, ... each evaluated once, in order, below max_n
C9_InOrderOnce ==
  /\ \A i \in DOMAIN evaluated : evaluated[i] = i
  /\ Len(evaluated) <= max_n - 1
  /\ max_n \notin Range(evaluated)
  /\ pc = "done" => Len(evaluated) = max_n - 1
  /\ \A i, j \in DOMAIN events : i < j => events[i].n < events[j].n
  /\ max_n = 1 => evaluated = <<>> /\ events = <<>>

\* C9: do_records(max_n) terminates, having evaluated each n in 1..max_n-1
\* once in increasing order and never n = max_n; the events are in strictly
\* increasing order of n; for max_n = 1 nothing is evaluated or emitted.
C9_ScanRunsToCompletion == <>(pc = "done" /\ C9_InOrderOnce)

\* a scan with several events has finished
C9_Witness == pc = "done" /\ max_n >= 13 /\ Len(events) >= 4

\* C10: an event of kind "z" or "both" at n has z(n) > z(m) for every
\* 1 <= m < n; one of kind "ratio" or "both" has ratio(n) > ratio(m) for
\* every 2 <= m < n.
C10_EventsAreGenuineRecords ==
  \A i \in DOMAIN events :
    LET e == events[i]
    IN /\ e.z = ScanZ[e.n] /\ e.ratio = ScanRatio[e.n] /\ e.tau = ScanTau[e.n]
       /\ e.kind \in {"z", "both"} =>
            \A m \in 1..(e.n - 1) : FGt(e.z, ScanZ[m])
       /\ e.kind \in {"ratio", "both"} =>
            \A m \in 2..(e.n - 1) : FGt(e.ratio, ScanRatio[m])

\* the record at n = 12 has been emitted, after the non-records 7..11
C10_Witness ==
  \E i \in DOMAIN events : events[i].n = 12 /\ events[i].kind = "both"

====
